---- MODULE Spec2Model ----
(***************************************************************************)
(* Binomial-lattice option pricing ("Binomial Method.py", p = 0.5 model):  *)
(* find_dt_u_d, produce_tree, payoff, find_euro_option_value and           *)
(* find_amer_option_value.                                                 *)
(*                                                                         *)
(* Numbers.  The program computes in binary floating point.  Here a real   *)
(* x is the integer floor(x * SCALE) (fixed point), every product and      *)
(* quotient rounds down, and np.exp / np.sqrt are computed to that         *)
(* precision.  Rounding is therefore present, as in the program, but with  *)
(* a coarser unit.  Python's None is the value None below.                 *)
(*                                                                         *)
(* Indices.  Python lists are 0-based, TLA+ sequences 1-based: the         *)
(* program's tree[i][j] is tree[i+1][j+1] here, and likewise for rows.     *)
(***************************************************************************)
EXTENDS Integers, Sequences, FiniteSets, TLC

\* ------------------------------------------------------------ arithmetic

\* the real 0.5 in fixed point; like binary floating point, the unit is even,
\* so that 0.5 is represented exactly
HALF == 500

\* fixed-point unit: the real 1.0
SCALE == 2 * HALF

\* largest number of binomial steps explored
MaxSteps == 3

\* Python's None (returned by payoff for an unrecognised option_type); it is
\* outside the range of every number the bounded arithmetic produces.
None == -1073741824

\* the cash amount of the cash-or-nothing payoffs
CASH == 10

Mul(a, b) == (a * b) \div SCALE

RECURSIVE ExpTerms(_, _, _)
ExpTerms(x, term, k) ==
    IF term = 0 THEN 0 ELSE term + ExpTerms(x, Mul(term, x) \div k, k + 1)

\* np.exp
Exp(x) == IF x >= 0 THEN ExpTerms(x, SCALE, 1)
                    ELSE (SCALE * SCALE) \div ExpTerms(-x, SCALE, 1)

RECURSIVE ISqrt(_, _, _)
ISqrt(n, lo, hi) ==
    IF lo >= hi THEN lo
    ELSE LET mid == (lo + hi + 1) \div 2
         IN  IF mid * mid <= n THEN ISqrt(n, mid, hi) ELSE ISqrt(n, lo, mid - 1)

\* np.sqrt, for a >= 0
Sqrt(a) == ISqrt(a * SCALE, 0, 46000)

\* the ** operator with a non-negative integer exponent
RECURSIVE Pow(_, _)
Pow(b, n) == IF n = 0 THEN SCALE ELSE Mul(Pow(b, n - 1), b)

\* variant of max: keeps the smaller argument
max_smaller(a, b) == IF b > a THEN a ELSE b

\* Python's built-in max(a, b): b when b > a, else a
max(a, b) == IF b > a THEN b ELSE a

\* ------------------------------------------------------------ pure functions

OptionTypes == {"call", "put", "cash_or_nothing_call", "cash_or_nothing_put"}

\* variant of find_dt_u_d: A without the "- 1"
find_dt_u_d_no_minus_one(r0, sigma0, T0, steps0) ==
    LET dt0 == T0 \div steps0
        A   == Exp(Mul(Mul(sigma0, sigma0), dt0))
        B   == Exp(Mul(r0, dt0))
    IN  [dt |-> dt0, u |-> Mul(B, SCALE + Sqrt(A)), d |-> Mul(B, SCALE - Sqrt(A))]

\* variant of find_dt_u_d: the signs of the square root exchanged
find_dt_u_d_signs_swapped(r0, sigma0, T0, steps0) ==
    LET dt0 == T0 \div steps0
        A   == Exp(Mul(Mul(sigma0, sigma0), dt0)) - SCALE
        B   == Exp(Mul(r0, dt0))
    IN  [dt |-> dt0, u |-> Mul(B, SCALE - Sqrt(A)), d |-> Mul(B, SCALE + Sqrt(A))]

\* find_dt_u_d after the division dt = T/steps has succeeded (steps # 0)
find_dt_u_d(r0, sigma0, T0, steps0) ==
    LET dt0 == T0 \div steps0
        A   == Exp(Mul(Mul(sigma0, sigma0), dt0)) - SCALE
        B   == Exp(Mul(r0, dt0))
    IN  [dt |-> dt0, u |-> Mul(B, SCALE + Sqrt(A)), d |-> Mul(B, SCALE - Sqrt(A))]

\* variant of produce_tree: the exponents of u and d exchanged
produce_tree_swapped(S0, r0, sigma0, T0, steps0) ==
    LET f == find_dt_u_d(r0, sigma0, T0, steps0)
    IN  [i1 \in 1..(steps0 + 1) |->
            [j1 \in 1..i1 |->
                Mul(Mul(S0, Pow(f.u, i1 - j1)), Pow(f.d, j1 - 1))]]

\* produce_tree: row i (0-based) holds S_0*(u**j)*(d**(i-j)) for j in 0..i
produce_tree(S0, r0, sigma0, T0, steps0) ==
    LET f == find_dt_u_d(r0, sigma0, T0, steps0)
    IN  [i1 \in 1..(steps0 + 1) |->
            [j1 \in 1..i1 |->
                Mul(Mul(S0, Pow(f.u, j1 - 1)), Pow(f.d, i1 - j1))]]

\* variant of payoff: the cash-or-nothing tests are not strict
payoff_not_strict(S, X, kind) ==
    IF kind = "call" THEN (IF (S - X) > 0 THEN S - X ELSE 0)
    ELSE IF kind = "put" THEN (IF (X - S) > 0 THEN X - S ELSE 0)
    ELSE IF kind = "cash_or_nothing_call"
         THEN (IF (S - X) >= 0 THEN CASH * SCALE ELSE 0)
    ELSE IF kind = "cash_or_nothing_put"
         THEN (IF (X - S) >= 0 THEN CASH * SCALE ELSE 0)
    ELSE None

payoff(S, X, kind) ==
    IF kind = "call" THEN (IF (S - X) > 0 THEN S - X ELSE 0)
    ELSE IF kind = "put" THEN (IF (X - S) > 0 THEN X - S ELSE 0)
    ELSE IF kind = "cash_or_nothing_call"
         THEN (IF (S - X) > 0 THEN CASH * SCALE ELSE 0)
    ELSE IF kind = "cash_or_nothing_put"
         THEN (IF (X - S) > 0 THEN CASH * SCALE ELSE 0)
    ELSE None

\* the terminal row: payoff of every price of the final tree row
terminal_row(final_row, X, kind) ==
    [j1 \in 1..Len(final_row) |-> payoff(final_row[j1], X, kind)]

\* adding two row entries raises TypeError when one of them is None
AddRaises(a, b) == a = None \/ b = None

\* variant of hold: the factor 0.5 left out
hold_no_half(disc, a, b) == Mul(disc, a + b)

\* discount*(0.5)*(payoff_row[j]+payoff_row[j+1])
hold(disc, a, b) == Mul(Mul(disc, HALF), a + b)

\* variant of tree_row_index: one row later
tree_row_index_next(tree_len, k) == (tree_len - 1) - k

\* index of the price row read while the loop index is k: tree[(tree_len-2)-k]
tree_row_index(tree_len, k) == (tree_len - 2) - k

\* variant of exercise_flag: no else branch, the flag is never reset
exercise_flag_sticky(prev, exercise_value, hold_value) ==
    IF exercise_value > hold_value THEN "True" ELSE prev

\* the if/else that sets the local `exercise` at one node
exercise_flag(prev, exercise_value, hold_value) ==
    IF exercise_value > hold_value THEN "True" ELSE "False"

\* ------------------------------------------------------------ state

VARIABLES
    S_0, r, sigma, T, steps, E, option_type,  \* the arguments of both calls
    pc,                                      \* position of the caller / callee
    dt, u, d, tree, discount,                \* locals of the running call
    payoff_row, new_row, i, j, exercise,
    V_E, V_A,                                \* value rows by level, as computed
    euro_result, euro_err,                   \* outcome of find_euro_option_value
    amer_result, amer_err                    \* outcome of find_amer_option_value

\* state of the other programs (path simulators, Monte-Carlo sweep, PDE
\* solver); the lattice pricing functions never touch it
VARIABLES
    S, t, S_now, t_now,          \* path lists and running point of a simulator
    trials, ndraws, err,         \* trial count, random draws consumed, exception
    S_0_list, k, price, paths,   \* Monte-Carlo sweep: grid, position, samples
    mean_price, err_price,       \* Monte-Carlo results, one per S_0 done
    S_list, V_now, V_data, t_list  \* PDE solver: grid, current values, history

inputs == <<S_0, r, sigma, T, steps, E, option_type>>
frame  == <<dt, u, d, tree, discount, payoff_row, new_row, i, j, exercise>>
outs   == <<euro_result, euro_err, amer_result, amer_err>>
sim    == <<S, t, S_now, t_now>>
mc     == <<S_0_list, k, price, paths, mean_price, err_price>>
pde    == <<S_list, V_now, V_data, t_list>>
aux    == <<sim, trials, ndraws, err, mc, pde>>
vars   == <<inputs, pc, frame, V_E, V_A, outs, aux>>

\* argument values explored (reals times SCALE)
S0Values    == {0, 80 * SCALE, 100 * SCALE, 120 * SCALE, 150 * SCALE}
EValues     == {100 * SCALE, 120 * SCALE}
rValues     == {-(SCALE \div 25), 0, SCALE \div 25, SCALE \div 5}
sigmaValues == {-(SCALE \div 5), 0, SCALE \div 5, (2 * SCALE) \div 5}
TValues     == {0, SCALE, 2 * SCALE}
TypeValues  == OptionTypes \cup {"straddle"}

NoRows == [l \in {} |-> <<>>]

EmptyFrame ==
    /\ dt = 0 /\ u = 0 /\ d = 0 /\ tree = <<>> /\ discount = 0
    /\ payoff_row = <<>> /\ new_row = <<>> /\ i = 0 /\ j = 0
    /\ exercise = "unbound"

SimIdle == S = <<>> /\ t = <<>> /\ S_now = 0 /\ t_now = 0
McIdle  == /\ S_0_list = <<>> /\ k = 0 /\ price = <<>> /\ paths = <<>>
           /\ mean_price = <<>> /\ err_price = <<>>
PdeIdle == S_list = <<>> /\ V_now = <<>> /\ V_data = <<>> /\ t_list = <<>>
AuxIdle == /\ SimIdle /\ McIdle /\ PdeIdle
           /\ trials = 0 /\ ndraws = 0 /\ err = "none"

Init ==
    /\ AuxIdle
    /\ S_0 \in S0Values /\ E \in EValues /\ r \in rValues
    /\ sigma \in sigmaValues /\ T \in TValues /\ steps \in 0..MaxSteps
    /\ option_type \in TypeValues
    /\ pc = "call_euro"
    /\ EmptyFrame
    /\ V_E = NoRows /\ V_A = NoRows
    /\ euro_result = <<>> /\ euro_err = "none"
    /\ amer_result = <<>> /\ amer_err = "none"

\* variant of Setup: the discount taken over the whole horizon T
Setup_discount_over_T(next_pc) ==
    LET f == find_dt_u_d(r, sigma, T, steps)
        tr == produce_tree(S_0, r, sigma, T, steps)
    IN  /\ dt' = f.dt /\ u' = f.u /\ d' = f.d
        /\ tree' = tr
        /\ payoff_row' = terminal_row(tr[Len(tr)], E, option_type)
        /\ discount' = Exp(Mul(-r, T))
        /\ new_row' = <<>> /\ i' = 0 /\ j' = 0 /\ exercise' = "unbound"
        /\ pc' = next_pc

\* variant of Setup: a tree left by an earlier call is used again
Setup_keeps_tree(next_pc) ==
    LET f == find_dt_u_d(r, sigma, T, steps)
        tr == IF tree # <<>> THEN tree ELSE produce_tree(S_0, r, sigma, T, steps)
    IN  /\ dt' = f.dt /\ u' = f.u /\ d' = f.d
        /\ tree' = tr
        /\ payoff_row' = terminal_row(tr[Len(tr)], E, option_type)
        /\ discount' = Exp(Mul(-r, f.dt))
        /\ new_row' = <<>> /\ i' = 0 /\ j' = 0 /\ exercise' = "unbound"
        /\ pc' = next_pc

\* lines shared by both pricing functions: factors, tree, terminal payoff row
\* and discount (find_euro_option_value 285-293, find_amer_option_value 307-317)
Setup(next_pc) ==
    LET f == find_dt_u_d(r, sigma, T, steps)
        tr == produce_tree(S_0, r, sigma, T, steps)
    IN  /\ dt' = f.dt /\ u' = f.u /\ d' = f.d
        /\ tree' = tr
        /\ payoff_row' = terminal_row(tr[Len(tr)], E, option_type)
        /\ discount' = Exp(Mul(-r, f.dt))
        /\ new_row' = <<>> /\ i' = 0 /\ j' = 0 /\ exercise' = "unbound"
        /\ pc' = next_pc

\* ------------------------------------------------------------ find_euro_option_value

EuroSetup ==
    /\ pc = "call_euro"
    /\ IF steps = 0
       THEN \* dt = T/steps raises ZeroDivisionError
            /\ euro_err' = "ZeroDivisionError"
            /\ pc' = "call_amer"
            /\ UNCHANGED <<frame, V_E>>
       ELSE /\ Setup("euro_loop")
            /\ V_E' = (steps :> payoff_row') @@ V_E
            /\ UNCHANGED euro_err
    /\ UNCHANGED <<aux, inputs, V_A, euro_result, amer_result, amer_err>>

\* one pass of `for i in range(steps)`: the whole new_row, then payoff_row = new_row
EuroLevel ==
    /\ pc = "euro_loop" /\ i < steps
    /\ IF \E j1 \in 1..(Len(payoff_row) - 1) :
              AddRaises(payoff_row[j1], payoff_row[j1 + 1])
       THEN /\ euro_err' = "TypeError"
            /\ pc' = "call_amer"
            /\ UNCHANGED <<frame, V_E>>
       ELSE /\ payoff_row' = [j1 \in 1..(Len(payoff_row) - 1) |->
                                hold(discount, payoff_row[j1], payoff_row[j1 + 1])]
            /\ i' = i + 1
            /\ V_E' = ((steps - i - 1) :> payoff_row') @@ V_E
            /\ UNCHANGED <<dt, u, d, tree, discount, new_row, j, exercise, pc, euro_err>>
    /\ UNCHANGED <<aux, inputs, V_A, euro_result, amer_result, amer_err>>

EuroReturn ==
    /\ pc = "euro_loop" /\ i = steps
    /\ euro_result' = <<payoff_row[1]>>
    /\ pc' = "call_amer"
    /\ UNCHANGED <<aux, inputs, frame, V_E, V_A, euro_err, amer_result, amer_err>>

\* ------------------------------------------------------------ find_amer_option_value

AmerSetup ==
    /\ pc = "call_amer"
    /\ IF steps = 0
       THEN /\ amer_err' = "ZeroDivisionError"
            /\ pc' = "done"
            /\ UNCHANGED <<frame, V_A>>
       ELSE /\ Setup("amer_loop")
            /\ V_A' = (steps :> payoff_row') @@ V_A
            /\ UNCHANGED amer_err
    /\ UNCHANGED <<aux, inputs, V_E, euro_result, euro_err, amer_result>>

\* one pass of the inner `for j in range(len(payoff_row)-1)`
AmerNode ==
    /\ pc = "amer_loop" /\ i < steps /\ j < Len(payoff_row) - 1
    /\ IF AddRaises(payoff_row[j + 1], payoff_row[j + 2])
       THEN /\ amer_err' = "TypeError"
            /\ pc' = "done"
            /\ UNCHANGED frame
       ELSE LET hold_value     == hold(discount, payoff_row[j + 1], payoff_row[j + 2])
                tree_row       == tree[tree_row_index(Len(tree), i) + 1]
                tree_value     == tree_row[j + 1]
                exercise_value == payoff(tree_value, E, option_type)
            IN  /\ exercise' = exercise_flag(exercise, exercise_value, hold_value)
                /\ new_row' = Append(new_row, max(hold_value, exercise_value))
                /\ j' = j + 1
                /\ UNCHANGED <<dt, u, d, tree, discount, payoff_row, i, pc, amer_err>>
    /\ UNCHANGED <<aux, inputs, V_E, V_A, euro_result, euro_err, amer_result>>

\* end of the inner loop: payoff_row = new_row, next i
AmerRowEnd ==
    /\ pc = "amer_loop" /\ i < steps /\ j = Len(payoff_row) - 1
    /\ payoff_row' = new_row
    /\ new_row' = <<>>
    /\ j' = 0
    /\ i' = i + 1
    /\ V_A' = ((steps - i - 1) :> new_row) @@ V_A
    /\ UNCHANGED <<aux, inputs, dt, u, d, tree, discount, exercise, pc, V_E, outs>>

AmerReturn ==
    /\ pc = "amer_loop" /\ i = steps
    /\ IF exercise = "unbound"
       THEN /\ amer_err' = "UnboundLocalError"
            /\ UNCHANGED amer_result
       ELSE /\ amer_result' = <<[value |-> payoff_row[1], exercise |-> exercise]>>
            /\ UNCHANGED amer_err
    /\ pc' = "done"
    /\ UNCHANGED <<aux, inputs, frame, V_E, V_A, euro_result, euro_err>>

Next ==
    \/ EuroSetup \/ EuroLevel \/ EuroReturn
    \/ AmerSetup \/ AmerNode \/ AmerRowEnd \/ AmerReturn

Spec == Init /\ [][Next]_vars


\* ------------------------------------------------------------ properties

\* inputs in the domain the contracts are stated for
ValidArgs ==
    /\ S_0 >= 0 /\ sigma > 0 /\ T >= 0 /\ steps >= 1
    /\ option_type \in OptionTypes

\* level (0-based) of the row the American inner loop is filling
AmerLevel == steps - i - 1

\* the larger of two numbers
Larger(a, b) == IF a >= b THEN a ELSE b

\* discounted mean of the two successors, written out
DiscountedMean(a, b) == (((discount * (SCALE \div 2)) \div SCALE) * (a + b)) \div SCALE

\* C1: for valid inputs every node value of the American backward induction
\* is >= the European value of the same node (level and index), including
\* the nodes of the row being filled, and the returned American value is >=
\* the returned European value.
C1_AmerDominatesEuro ==
    ValidArgs =>
        /\ \A l \in (DOMAIN V_A) \cap (DOMAIN V_E) :
              \A j1 \in 1..(l + 1) : V_A[l][j1] >= V_E[l][j1]
        /\ (pc = "amer_loop" /\ i < steps) =>
              \A j1 \in 1..Len(new_row) : new_row[j1] >= V_E[AmerLevel][j1]
        /\ (euro_result # <<>> /\ amer_result # <<>>) =>
              amer_result[1].value >= euro_result[1]

\* both calls returned and the American value is strictly larger, with a
\* strictly larger node below the root as well
C1_Witness ==
    /\ ValidArgs /\ pc = "done" /\ steps >= 2
    /\ euro_result # <<>> /\ amer_result # <<>>
    /\ amer_result[1].value > euro_result[1]
    /\ \E j1 \in 1..2 : V_A[1][j1] > V_E[1][j1]

\* C2: every node value of find_amer_option_value at level l < N, index j,
\* is the larger of the hold value computed from level l+1 and the payoff of
\* the price node tree[l][j] with the same level and index.
C2_AmerNodeValue ==
    option_type \in OptionTypes =>
        /\ \A l \in (DOMAIN V_A) \ {steps} :
              \A j1 \in 1..(l + 1) :
                 V_A[l][j1] =
                    Larger(DiscountedMean(V_A[l + 1][j1], V_A[l + 1][j1 + 1]),
                           payoff(tree[l + 1][j1], E, option_type))
        /\ (pc = "amer_loop" /\ i < steps) =>
              \A j1 \in 1..Len(new_row) :
                 new_row[j1] =
                    Larger(DiscountedMean(payoff_row[j1], payoff_row[j1 + 1]),
                           payoff(tree[AmerLevel + 1][j1], E, option_type))

\* the American call returned after a node where exercising beat holding, at
\* a level whose price row differs from the row one level later
C2_Witness ==
    /\ option_type \in OptionTypes /\ pc = "done" /\ amer_result # <<>>
    /\ steps >= 2
    /\ \E l \in 0..(steps - 1) : \E j1 \in 1..(l + 1) :
          /\ payoff(tree[l + 1][j1], E, option_type)
                > DiscountedMean(V_A[l + 1][j1], V_A[l + 1][j1 + 1])
          /\ payoff(tree[l + 1][j1], E, option_type)
                # payoff(tree[l + 2][j1], E, option_type)

\* C3: find_euro_option_value starts from the payoffs of the last price row,
\* level l holds l+1 values, each the discounted mean of its two successors,
\* the loop runs exactly N times and the single value of level 0 is returned;
\* for N = 1 that is discount*0.5*(payoff(S0*d) + payoff(S0*u)).
C3_EuroInduction ==
    (V_E # NoRows) =>
        /\ V_E[steps] = [j1 \in 1..(steps + 1) |->
                            payoff(tree[steps + 1][j1], E, option_type)]
        /\ \A l \in DOMAIN V_E : Len(V_E[l]) = l + 1
        /\ \A l \in (DOMAIN V_E) \ {steps} :
              \A j1 \in 1..(l + 1) :
                 V_E[l][j1] = DiscountedMean(V_E[l + 1][j1], V_E[l + 1][j1 + 1])
        /\ pc = "euro_loop" => DOMAIN V_E = (steps - i)..steps
        /\ euro_result # <<>> =>
              /\ DOMAIN V_E = 0..steps
              /\ euro_result = V_E[0]
        /\ (euro_result # <<>> /\ steps = 1) =>
              euro_result[1] =
                 DiscountedMean(payoff((S_0 * d) \div SCALE, E, option_type),
                                payoff((S_0 * u) \div SCALE, E, option_type))

\* a European value that is positive was returned after three reductions, and
\* (separately reachable) after a single one
C3_Witness ==
    /\ euro_result # <<>> /\ euro_result[1] > 0 /\ steps = 3 /\ discount < SCALE

C3_WitnessOneStep ==
    /\ euro_result # <<>> /\ euro_result[1] > 0 /\ steps = 1 /\ discount < SCALE

\* C4: the flag returned by find_amer_option_value is True exactly when, at
\* the root node, the exercise value exceeds the hold value; no other node's
\* comparison matters.
C4_RootFlag ==
    amer_result # <<>> =>
        (amer_result[1].exercise = "True"
            <=> payoff(tree[1][1], E, option_type)
                   > DiscountedMean(V_A[1][1], V_A[1][2]))

\* some node other than the root compared the other way round
OtherNodeExercised ==
    \E l \in 1..(steps - 1) : \E j1 \in 1..(l + 1) :
        payoff(tree[l + 1][j1], E, option_type)
           > DiscountedMean(V_A[l + 1][j1], V_A[l + 1][j1 + 1])

\* returned flag False although exercise was optimal at a node below the root
C4_Witness ==
    /\ amer_result # <<>> /\ amer_result[1].exercise = "False"
    /\ OtherNodeExercised

\* returned flag True
C4_WitnessTrue ==
    /\ amer_result # <<>> /\ amer_result[1].exercise = "True" /\ steps >= 2

\* C5: the tree built by produce_tree has N+1 levels, level i has i+1 prices
\* and the price with j up moves at level i is S0 * u^j * d^(i-j), u and d
\* being the factors of find_dt_u_d for the same arguments.
C5_TreeShape ==
    (tree # <<>>) =>
        /\ Len(tree) = steps + 1
        /\ \A i0 \in 0..steps :
              /\ Len(tree[i0 + 1]) = i0 + 1
              /\ \A j0 \in 0..i0 :
                    tree[i0 + 1][j0 + 1] =
                       (((S_0 * Pow(find_dt_u_d(r, sigma, T, steps).u, j0)) \div SCALE)
                           * Pow(find_dt_u_d(r, sigma, T, steps).d, i0 - j0)) \div SCALE

\* a tree of four levels with distinct up and down factors and a positive root
C5_Witness ==
    /\ tree # <<>> /\ steps = 3 /\ S_0 > 0 /\ u > d /\ d > 0
    /\ tree[4][1] < tree[4][2] /\ tree[4][3] < tree[4][4]

\* the payoff table of the specification
PayoffTable(P, X, kind) ==
    CASE kind = "call" -> Larger(P - X, 0)
      [] kind = "put"  -> Larger(X - P, 0)
      [] kind = "cash_or_nothing_call" -> IF P > X THEN CASH * SCALE ELSE 0
      [] kind = "cash_or_nothing_put"  -> IF X > P THEN CASH * SCALE ELSE 0

\* C6: payoff is max(S-E,0) for a call, max(E-S,0) for a put, 10 if S > E
\* else 0 and 10 if E > S else 0 for the cash-or-nothing kinds; at S = E it is
\* 0 for all four kinds.  Checked on every terminal payoff either pricing
\* function has computed.
C6_PayoffTable ==
    (option_type \in OptionTypes /\ tree # <<>>) =>
        /\ \A j1 \in 1..(steps + 1) :
              /\ steps \in DOMAIN V_E =>
                    V_E[steps][j1] = PayoffTable(tree[steps + 1][j1], E, option_type)
              /\ steps \in DOMAIN V_A =>
                    V_A[steps][j1] = PayoffTable(tree[steps + 1][j1], E, option_type)
              /\ tree[steps + 1][j1] = E =>
                    payoff(tree[steps + 1][j1], E, option_type) = 0

\* a cash-or-nothing payoff taken at a terminal price equal to the exercise
\* price
C6_Witness ==
    /\ option_type = "cash_or_nothing_call" /\ tree # <<>> /\ steps \in DOMAIN V_A
    /\ \E j1 \in 1..(steps + 1) : tree[steps + 1][j1] = E

\* a call payoff taken at terminal prices on both sides of the exercise price
C6_WitnessBothSides ==
    /\ option_type = "call" /\ tree # <<>> /\ steps \in DOMAIN V_A
    /\ \E j1 \in 1..(steps + 1) : tree[steps + 1][j1] > E
    /\ \E j1 \in 1..(steps + 1) : tree[steps + 1][j1] < E


\* C7 (as stated): a call with steps = 0 (all other arguments valid) is not
\* an error: both pricing functions return payoff(S_0, E, option_type) and
\* raise nothing.
C7_ZeroStepsReturnsPayoff ==
    (steps = 0 /\ sigma > 0 /\ S_0 > 0 /\ option_type \in OptionTypes) =>
        /\ euro_err = "none" /\ amer_err = "none"
        /\ pc \in {"call_amer", "done"} =>
              euro_result = <<payoff(S_0, E, option_type)>>
        /\ pc = "done" =>
              /\ amer_result # <<>>
              /\ amer_result[1].value = payoff(S_0, E, option_type)

\* C8: with T = 0 and N >= 1 the factors are dt = 0, u = d = 1, every price
\* of the tree is S_0, and for the four option types both pricing functions
\* return payoff(S_0, E, option_type) and raise nothing.
C8_ZeroHorizon ==
    (T = 0 /\ steps >= 1) =>
        /\ find_dt_u_d(r, sigma, T, steps) = [dt |-> 0, u |-> SCALE, d |-> SCALE]
        /\ tree # <<>> =>
              /\ dt = 0 /\ u = SCALE /\ d = SCALE
              /\ \A i1 \in 1..Len(tree) : \A j1 \in 1..i1 : tree[i1][j1] = S_0
        /\ option_type \in OptionTypes =>
              /\ euro_err = "none" /\ amer_err = "none"
              /\ pc \in {"call_amer", "amer_loop", "done"} =>
                    euro_result = <<payoff(S_0, E, option_type)>>
              /\ pc = "done" =>
                    /\ amer_result # <<>>
                    /\ amer_result[1].value = payoff(S_0, E, option_type)

\* both functions returned a positive payoff for T = 0, several steps, and a
\* non-zero rate and volatility
C8_Witness ==
    /\ T = 0 /\ steps >= 2 /\ pc = "done" /\ r # 0 /\ sigma > 0
    /\ euro_result # <<>> /\ amer_result # <<>>
    /\ euro_result[1] > 0 /\ amer_result[1].value = euro_result[1]

\* C9 (as stated): a call with sigma <= 0 (all other arguments valid) is
\* rejected with InvalidParameter before any factor, price or option value is
\* computed; no price is ever returned.
C9_NonPositiveSigmaRejected ==
    (sigma <= 0 /\ steps >= 1 /\ S_0 > 0 /\ option_type \in OptionTypes) =>
        /\ tree = <<>> /\ V_E = NoRows /\ V_A = NoRows
        /\ euro_result = <<>> /\ amer_result = <<>>
        /\ pc # "call_euro" => euro_err = "InvalidParameter"
        /\ pc = "done" => amer_err = "InvalidParameter"

\* C10 (as stated): a call whose option_type is outside the four kinds (all
\* other arguments valid) is rejected before the tree is built or any payoff
\* or node value is computed, and returns no price.
C10_UnknownTypeRejectedFirst ==
    (option_type \notin OptionTypes /\ steps >= 1 /\ sigma > 0 /\ S_0 > 0) =>
        /\ tree = <<>> /\ payoff_row = <<>> /\ V_E = NoRows /\ V_A = NoRows
        /\ euro_result = <<>> /\ amer_result = <<>>
        /\ pc # "call_euro" => euro_err # "none"
        /\ pc = "done" => amer_err # "none"


\* the growth factor B = exp(r*dt) and the term A = exp(sigma^2*dt) - 1 of
\* the factors held by the running call
GrowthB == Exp(Mul(r, dt))
TermA   == Exp(Mul(Mul(sigma, sigma), dt)) - SCALE

\* C11 (as stated): for sigma > 0, T >= 0, N >= 1 the factors satisfy
\* d < exp(r*T/N) < u.
C11_StrictNoArbitrage ==
    (sigma > 0 /\ T >= 0 /\ steps >= 1 /\ tree # <<>>) =>
        (d < GrowthB /\ GrowthB < u)

\* C11 (amended): for sigma > 0, T >= 0, N >= 1 the factors satisfy
\* d <= exp(r*T/N) <= u; both inequalities are strict when A is positive as
\* computed, and for T = 0 they are equalities, d = exp(r*dt) = u = 1.
C11_NoArbitrageBounds ==
    (sigma > 0 /\ T >= 0 /\ steps >= 1 /\ tree # <<>>) =>
        /\ d <= GrowthB /\ GrowthB <= u
        /\ TermA > 0 => (d < GrowthB /\ GrowthB < u)
        /\ T = 0 => (d = SCALE /\ GrowthB = SCALE /\ u = SCALE)
        /\ [dt |-> dt, u |-> u, d |-> d] = find_dt_u_d(r, sigma, T, steps)

\* factors of a call with T > 0 and a non-zero rate, strictly ordered
C11_Witness ==
    /\ sigma > 0 /\ T > 0 /\ steps >= 2 /\ r # 0 /\ tree # <<>>
    /\ d < GrowthB /\ GrowthB < u

\* factors of a call with T = 0: all equal
C11_WitnessZeroHorizon ==
    /\ sigma > 0 /\ T = 0 /\ steps >= 1 /\ tree # <<>> /\ d = GrowthB /\ u = GrowthB


\* ------------------------------------------------------------ path simulators

\* largest number of trials explored
MaxTrials == 2

\* values drawn for np.random.normal(0, 0.015) and for a standard normal
JitterDraws == {-((3 * SCALE) \div 200), 0, (3 * SCALE) \div 200}
NormalDraws == {-SCALE, 0, SCALE}

\* arguments explored for the simulators
SimS0Values == {80 * SCALE, 100 * SCALE}
SimrValues  == {0, SCALE \div 25}
SimTValues  == {0, SCALE}

\* the lattice pricing state, unused by the other programs
LatticeIdle ==
    /\ E = 0 /\ option_type = "call" /\ EmptyFrame
    /\ V_E = NoRows /\ V_A = NoRows
    /\ euro_result = <<>> /\ euro_err = "none"
    /\ amer_result = <<>> /\ amer_err = "none"

lattice_only == <<E, option_type, tree, discount, payoff_row, new_row, exercise,
                  V_E, V_A, outs>>

\* variant of S_plot: the variation added, not scaled by the price
S_plot_additive(S_now0, eps) == S_now0 + eps

\* S_plot = S_now + (S_now*np.random.normal(0, 0.015))
S_plot(S_now0, eps) == S_now0 + Mul(S_now0, eps)

InitWalk ==
    /\ LatticeIdle /\ SimIdle /\ McIdle /\ PdeIdle
    /\ ndraws = 0 /\ err = "none"
    /\ S_0 \in SimS0Values /\ r \in SimrValues /\ sigma = SCALE \div 5
    /\ T \in SimTValues /\ steps \in 0..MaxSteps /\ trials \in 1..MaxTrials
    /\ pc = "call_walk"

\* plot_stock_sample: dt, u, d = find_dt_u_d(r, sigma, T, steps)
WalkSetup ==
    /\ pc = "call_walk"
    /\ IF steps = 0
       THEN /\ err' = "ZeroDivisionError" /\ pc' = "done"
            /\ UNCHANGED <<dt, u, d>>
       ELSE LET f == find_dt_u_d(r, sigma, T, steps)
            IN  /\ dt' = f.dt /\ u' = f.u /\ d' = f.d
                /\ pc' = "walk_trial"
                /\ UNCHANGED err
    /\ UNCHANGED <<inputs, tree, discount, payoff_row, new_row, i, j, exercise,
                   V_E, V_A, outs, sim, trials, ndraws, mc, pde>>

\* for j in range(trials): S = [S_0], t = [0.0], S_now = S_0, t_0 = 0.0
WalkTrialStart ==
    /\ pc = "walk_trial" /\ j < trials
    /\ S' = <<S_0>> /\ t' = <<0>> /\ S_now' = S_0 /\ t_now' = 0
    /\ i' = 0 /\ ndraws' = 0
    /\ pc' = "walk_step"
    /\ UNCHANGED <<inputs, dt, u, d, tree, discount, payoff_row, new_row, j,
                   exercise, V_E, V_A, outs, trials, err, mc, pde>>

\* one pass of `for i in range(steps)`: a uniform draw picks u or d, a normal
\* draw sets the variation of the recorded point
WalkStep ==
    /\ pc = "walk_step" /\ i < steps
    /\ \E up \in BOOLEAN, eps \in JitterDraws :
          /\ S_now' = IF up THEN Mul(S_now, u) ELSE Mul(S_now, d)
          /\ t_now' = t_now + dt
          /\ S' = Append(S, S_plot(S_now', eps))
          /\ t' = Append(t, t_now')
    /\ i' = i + 1 /\ ndraws' = ndraws + 2
    /\ UNCHANGED <<inputs, dt, u, d, tree, discount, payoff_row, new_row, j,
                   exercise, V_E, V_A, outs, trials, err, mc, pde, pc>>

\* end of a trial: the path is plotted, next j
WalkTrialEnd ==
    /\ pc = "walk_step" /\ i = steps
    /\ j' = j + 1
    /\ pc' = "walk_trial"
    /\ UNCHANGED <<inputs, dt, u, d, tree, discount, payoff_row, new_row, i,
                   exercise, V_E, V_A, outs, aux>>

WalkDone ==
    /\ pc = "walk_trial" /\ j = trials
    /\ pc' = "done"
    /\ UNCHANGED <<inputs, frame, V_E, V_A, outs, aux>>

NextWalk == WalkSetup \/ WalkTrialStart \/ WalkStep \/ WalkTrialEnd \/ WalkDone

SpecWalk == InitWalk /\ [][NextWalk]_vars

\* C13 (as stated): every path of plot_stock_sample has N+1 points, starts
\* at S_0, each later recorded point is the previous recorded point times u
\* or times d (so that it is a price of the lattice).
C13_RecordedPointsOnLattice ==
    (pc = "walk_step") =>
        /\ S[1] = S_0
        /\ Len(S) = i + 1
        /\ i = steps => Len(S) = steps + 1
        /\ \A n \in 2..Len(S) :
              S[n] \in {Mul(S[n - 1], u), Mul(S[n - 1], d)}

\* C13 (amended): every path has N+1 points and starts at S_0; at each step
\* the running price S_now (not the recorded point) is multiplied by u or by
\* d, the factors of find_dt_u_d, and the point recorded is
\* S_now * (1 + eps) for a fresh normal(0, 0.015) draw eps.
C13_WalkThenVariation ==
    [][ /\ pc' = "walk_step" =>
              /\ Len(S') = i' + 1 /\ Len(t') = i' + 1
              /\ S'[1] = S_0
              /\ [dt |-> dt', u |-> u', d |-> d'] = find_dt_u_d(r, sigma, T, steps)
        /\ (pc = "walk_step" /\ pc' = "walk_step") =>
              /\ S_now' \in {(S_now * u) \div SCALE, (S_now * d) \div SCALE}
              /\ \E eps \in JitterDraws :
                    S' = Append(S, S_now' + ((S_now' * eps) \div SCALE))
        /\ (pc = "walk_step" /\ pc' = "walk_trial") => Len(S) = steps + 1
      ]_vars

\* a finished path of the second trial whose recorded points left the
\* lattice
C13_Witness ==
    /\ pc = "walk_step" /\ i = steps /\ steps >= 2 /\ j = 1 /\ T > 0
    /\ S[2] \notin {Mul(S[1], u), Mul(S[1], d)}
    /\ S[3] \notin {Mul(S[2], u), Mul(S[2], d)}

\* ------------------------------------------------------------ find_stock_price

\* variant of gbm_step: the drift not multiplied by dt
gbm_step_drift_no_dt(S_now0, r0, sigma0, dt0, w) ==
    S_now0 + (Mul(r0, S_now0) + Mul(Mul(sigma0, S_now0), w))

\* S_now += dS with drift = r*S_now*dt, vol = sigma*S_now*w, dS = drift + vol
gbm_step(S_now0, r0, sigma0, dt0, w) ==
    S_now0 + (Mul(Mul(r0, S_now0), dt0) + Mul(Mul(sigma0, S_now0), w))

\* np.random.normal(0, scale) for the standard-normal draw z
normal(scale, z) == Mul(scale, z)

InitGbm ==
    /\ LatticeIdle /\ SimIdle /\ McIdle /\ PdeIdle
    /\ ndraws = 0 /\ err = "none" /\ trials = 0
    /\ S_0 \in SimS0Values /\ r \in SimrValues
    /\ sigma \in {SCALE \div 10, SCALE \div 5}
    /\ T \in SimTValues /\ steps \in 0..MaxSteps
    /\ pc = "call_gbm"

\* dt = T/steps and the initial lists
GbmSetup ==
    /\ pc = "call_gbm"
    /\ IF steps = 0
       THEN /\ err' = "ZeroDivisionError" /\ pc' = "done"
            /\ UNCHANGED <<dt, sim>>
       ELSE /\ dt' = T \div steps
            /\ S' = <<S_0>> /\ t' = <<0>> /\ S_now' = S_0 /\ t_now' = 0
            /\ pc' = "gbm_loop"
            /\ UNCHANGED err
    /\ UNCHANGED <<inputs, u, d, tree, discount, payoff_row, new_row, i, j,
                   exercise, V_E, V_A, outs, trials, ndraws, mc, pde>>

\* one pass of `for i in range(steps)`
GbmStep ==
    /\ pc = "gbm_loop" /\ i < steps
    /\ \E z \in NormalDraws :
          /\ S_now' = gbm_step(S_now, r, sigma, dt, normal(Sqrt(dt), z))
          /\ t_now' = t_now + dt
          /\ S' = Append(S, S_now')
          /\ t' = Append(t, t_now')
    /\ i' = i + 1 /\ ndraws' = ndraws + 1
    /\ UNCHANGED <<inputs, dt, u, d, tree, discount, payoff_row, new_row, j,
                   exercise, V_E, V_A, outs, trials, err, mc, pde, pc>>

\* return S, t
GbmReturn ==
    /\ pc = "gbm_loop" /\ i = steps
    /\ pc' = "done"
    /\ UNCHANGED <<inputs, frame, V_E, V_A, outs, aux>>

NextGbm == GbmSetup \/ GbmStep \/ GbmReturn

SpecGbm == InitGbm /\ [][NextGbm]_vars

\* C14: find_stock_price returns a price list and a time list of N+1 entries
\* each, S[0] = S_0, t[0] = 0, t[k] = k*dt with dt = T/N, and each step
\* appends S[k] + r*S[k]*dt + sigma*S[k]*W with W = Z*sqrt(dt) for exactly
\* one fresh standard-normal draw Z; nothing but the previous point enters.
C14_GbmRecurrence ==
    [][ /\ pc' = "gbm_loop" =>
              /\ dt' = T \div steps
              /\ Len(S') = i' + 1 /\ Len(t') = i' + 1
              /\ S'[1] = S_0 /\ t'[1] = 0
              /\ \A n \in 1..Len(t') : t'[n] = (n - 1) * dt'
              /\ ndraws' = i'
        /\ (pc = "gbm_loop" /\ pc' = "gbm_loop") =>
              /\ ndraws' = ndraws + 1
              /\ \E z \in NormalDraws :
                    S' = Append(S,
                           S[Len(S)]
                             + (((((r * S[Len(S)]) \div SCALE) * dt) \div SCALE)
                                + ((((sigma * S[Len(S)]) \div SCALE)
                                      * ((Sqrt(dt) * z) \div SCALE)) \div SCALE)))
        /\ (pc = "gbm_loop" /\ pc' = "done") =>
              /\ Len(S) = steps + 1 /\ Len(t) = steps + 1
              /\ S' = S /\ t' = t
      ]_vars

\* a returned path of at least three points that moved at every step
C14_Witness ==
    /\ pc = "done" /\ err = "none" /\ steps >= 2 /\ Len(S) = steps + 1
    /\ r > 0 /\ T > 0
    /\ S[2] > S[1] /\ S[3] < S[2] /\ t[3] = 2 * dt


\* ------------------------------------------------------------ finite differences

\* the window option of BlackScholes.py: strike, barrier, amount paid
WINDOW_E == 110
WINDOW_B == 120
WINDOW_PAY == 10

\* float division
Div(a, b) == (a * SCALE) \div b

\* list[p] for a Python index p, negative indices counting from the end
Idx(list, p) == IF p < 0 THEN list[Len(list) + p + 1] ELSE list[p + 1]

\* payoff(S) of BlackScholes.py
payoff_window(P) ==
    IF P > WINDOW_B * SCALE THEN 0
    ELSE IF P > WINDOW_E * SCALE THEN WINDOW_PAY * SCALE
    ELSE 0

find_V_expiry(grid) == [m \in 1..Len(grid) |-> payoff_window(grid[m])]

find_dVdS(V_list, grid) ==
    LET n == Len(V_list)
        dVdS_list == [m \in 1..(n - 1) |->
                         Div(V_list[m + 1] - V_list[m], grid[m + 1] - grid[m])]
        list_len == n - 1
        deltadVdS == Idx(dVdS_list, list_len - 1) - Idx(dVdS_list, list_len - 2)
        deltaS == Idx(grid, list_len - 2) - Idx(grid, list_len - 3)
        gradient == Div(deltadVdS, deltaS)
        final_value == Idx(dVdS_list, list_len - 1)
                         + Mul(Idx(grid, -1) - Idx(grid, -2), gradient)
    IN  Append(dVdS_list, final_value)

find_d2VdS2(V_list, grid) ==
    LET n == Len(V_list)
        inner == [m \in 1..(n - 2) |->
                     Div((V_list[m] - (2 * V_list[m + 1])) + V_list[m + 2],
                         grid[m + 2] - grid[m + 1])]
        list_len == n - 2
        deltaS == Idx(grid, list_len - 2) - Idx(grid, list_len - 3)
        gradient == Div(Idx(inner, list_len - 1) - Idx(inner, list_len - 2), deltaS)
        final_value == Idx(inner, list_len - 1)
                         + Mul(Idx(grid, -1) - Idx(grid, -2), gradient)
        with_final == Append(inner, final_value)
        gradient0 == Div(with_final[2] - with_final[1], grid[2] - grid[1])
        initial_value == with_final[1] - Mul(grid[2] - grid[1], gradient0)
    IN  <<initial_value>> \o with_final

find_dVdt(V_list, grid, r0, sigma0) ==
    LET dVdS_list == find_dVdS(V_list, grid)
        d2VdS2_list == find_d2VdS2(V_list, grid)
    IN  [m \in 1..Len(V_list) |->
            ((0 + Mul(r0, V_list[m]))
                - Mul(Mul(r0, grid[m]), dVdS_list[m]))
                - Mul(Mul(Mul(Mul(HALF, sigma0), sigma0), grid[m]), d2VdS2_list[m])]

\* variant of update_V: stepping forwards in time
update_V_forwards(V_list, dVdt_list, dt0) ==
    [m \in 1..Len(V_list) |-> V_list[m] + Mul(dVdt_list[m], dt0)]

update_V(V_list, dVdt_list, dt0) ==
    [m \in 1..Len(V_list) |-> V_list[m] - Mul(dVdt_list[m], dt0)]

\* grids explored: 3 and 4 nodes, uniform and not, and longer uniform ones
Grids ==
    { <<105 * SCALE, 115 * SCALE, 125 * SCALE>>,
      <<105 * SCALE, 112 * SCALE, 125 * SCALE>>,
      <<100 * SCALE, 110 * SCALE, 120 * SCALE, 130 * SCALE>>,
      <<105 * SCALE, 112 * SCALE, 118 * SCALE, 125 * SCALE>>,
      <<100 * SCALE, 105 * SCALE, 110 * SCALE, 115 * SCALE, 120 * SCALE>>,
      <<100 * SCALE, 104 * SCALE, 111 * SCALE, 115 * SCALE, 122 * SCALE>>,
      <<100 * SCALE, 105 * SCALE, 110 * SCALE, 115 * SCALE, 120 * SCALE,
        125 * SCALE>> }

InitPde ==
    /\ LatticeIdle /\ SimIdle /\ McIdle
    /\ ndraws = 0 /\ err = "none" /\ trials = 0 /\ S_0 = 0 /\ T = 0
    /\ S_list \in Grids
    /\ r \in {0, SCALE \div 20}
    /\ sigma \in {SCALE \div 10, SCALE \div 5}
    /\ steps \in 0..MaxSteps
    /\ V_now = <<>> /\ V_data = <<>> /\ t_list = <<>>
    /\ pc = "call_pde"

\* find_option_value: V_expiry, V_data = [V_expiry], t_list = [0.0]
PdeSetup ==
    /\ pc = "call_pde"
    /\ \E dt0 \in {SCALE \div 100, SCALE \div 50} : dt' = dt0
    /\ V_now' = find_V_expiry(S_list)
    /\ V_data' = <<V_now'>>
    /\ t_list' = <<0>>
    /\ t_now' = 0
    /\ pc' = "pde_loop"
    /\ UNCHANGED <<inputs, u, d, tree, discount, payoff_row, new_row, i, j,
                   exercise, V_E, V_A, outs, S, t, S_now, trials, ndraws, err,
                   mc, S_list>>

\* one pass of `for i in range(steps)`
PdeStep ==
    /\ pc = "pde_loop" /\ i < steps
    /\ LET dVdt_list == find_dVdt(V_now, S_list, r, sigma)
           V_new == update_V(V_now, dVdt_list, dt)
           t_new == t_now + dt
       IN  /\ V_data' = Append(V_data, V_new)
           /\ t_list' = Append(t_list, t_new)
           /\ V_now' = V_new
           /\ t_now' = t_new
    /\ i' = i + 1
    /\ UNCHANGED <<inputs, dt, u, d, tree, discount, payoff_row, new_row, j,
                   exercise, V_E, V_A, outs, S, t, S_now, trials, ndraws, err,
                   mc, S_list, pc>>

\* return V_data, t_list
PdeReturn ==
    /\ pc = "pde_loop" /\ i = steps
    /\ pc' = "done"
    /\ UNCHANGED <<inputs, frame, V_E, V_A, outs, aux>>

NextPde == PdeSetup \/ PdeStep \/ PdeReturn

SpecPde == InitPde /\ [][NextPde]_vars

\* C15 (as stated): at every time step and node the new value is
\* V - dt*(r*V - r*S*dVdS - 0.5*sigma^2*S^2*d2VdS2), with dVdS and d2VdS2 the
\* derivative estimates of the current value array.
C15_BlackScholesStep ==
    [][ (pc = "pde_loop" /\ pc' = "pde_loop") =>
            LET dVdS_list == find_dVdS(V_now, S_list)
                d2VdS2_list == find_d2VdS2(V_now, S_list)
            IN  \A m \in 1..Len(S_list) :
                  V_now'[m] = V_now[m]
                    - Mul(((Mul(r, V_now[m])
                             - Mul(Mul(r, S_list[m]), dVdS_list[m]))
                             - Mul(Mul(Mul(Mul(Mul(HALF, sigma), sigma),
                                           S_list[m]), S_list[m]),
                                   d2VdS2_list[m])),
                          dt)
      ]_vars

\* C16 (as stated): at every interior node the first derivative estimate is
\* the central difference (V[i+1] - V[i-1]) / (S[i+1] - S[i-1]) and, on a
\* uniform grid of spacing h, the second is (V[i-1] - 2 V[i] + V[i+1]) / h^2.
UniformGrid ==
    \A m \in 2..(Len(S_list) - 1) :
        S_list[m + 1] - S_list[m] = S_list[m] - S_list[m - 1]

C16_CentralDifferences ==
    (pc = "pde_loop") =>
        \A m \in 2..(Len(S_list) - 1) :
            /\ find_dVdS(V_now, S_list)[m]
                 = Div(V_now[m + 1] - V_now[m - 1], S_list[m + 1] - S_list[m - 1])
            /\ UniformGrid =>
                 find_d2VdS2(V_now, S_list)[m]
                   = Div(Div((V_now[m - 1] - (2 * V_now[m])) + V_now[m + 1],
                             S_list[2] - S_list[1]),
                         S_list[2] - S_list[1])

\* C17: find_option_value returns steps+1 value arrays and steps+1 times;
\* V_data[0] is the payoff on the grid, t_list[k] = k*dt, every array is as
\* long as the grid, each array is one explicit step from the one before,
\* and an array once appended is never changed.
C17_TimeSeries ==
    [][ /\ pc' \in {"pde_loop", "done"} =>
              /\ Len(V_data') = i' + 1 /\ Len(t_list') = i' + 1
              /\ V_data'[1] = [m \in 1..Len(S_list) |-> payoff_window(S_list[m])]
              /\ \A n \in 1..Len(t_list') : t_list'[n] = (n - 1) * dt'
              /\ \A n \in 1..Len(V_data') : Len(V_data'[n]) = Len(S_list)
              /\ \A n \in 1..(Len(V_data') - 1) : \A m \in 1..Len(S_list) :
                    V_data'[n + 1][m]
                      = V_data'[n][m]
                          - ((find_dVdt(V_data'[n], S_list, r, sigma)[m] * dt')
                                \div SCALE)
        /\ pc \in {"pde_loop", "done"} =>
              /\ \A n \in 1..Len(V_data) : V_data'[n] = V_data[n]
              /\ \A n \in 1..Len(t_list) : t_list'[n] = t_list[n]
        /\ pc' = "done" => Len(V_data') = steps + 1 /\ Len(t_list') = steps + 1
      ]_vars

\* a returned series of three or more arrays that changed at every step
C17_Witness ==
    /\ pc = "done" /\ steps >= 2 /\ Len(V_data) = steps + 1 /\ r > 0
    /\ V_data[2] # V_data[1] /\ V_data[3] # V_data[2]
    /\ V_data[1][3] = WINDOW_PAY * SCALE

\* C20 (as stated): the endpoint values added by find_dVdS (last node) and
\* find_d2VdS2 (first and last node) are the linear extrapolation of the two
\* nearest interior estimates, the slope taken over the spacing between the
\* nodes of those two estimates, on every strictly increasing grid, and the
\* arrays have len(V_list) entries.
C20_LinearExtrapolation ==
    (pc = "pde_loop") =>
        LET n == Len(S_list)
            dV == find_dVdS(V_now, S_list)
            d2 == find_d2VdS2(V_now, S_list)
        IN  /\ Len(dV) = n /\ Len(d2) = n
            /\ dV[n] = dV[n - 1]
                 + Mul(S_list[n] - S_list[n - 1],
                       Div(dV[n - 1] - dV[n - 2], S_list[n - 1] - S_list[n - 2]))
            /\ n >= 4 =>
                 /\ d2[n] = d2[n - 1]
                      + Mul(S_list[n] - S_list[n - 1],
                            Div(d2[n - 1] - d2[n - 2],
                                S_list[n - 1] - S_list[n - 2]))
                 /\ d2[1] = d2[2]
                      - Mul(S_list[2] - S_list[1],
                            Div(d2[3] - d2[2], S_list[3] - S_list[2]))


\* ------------------------------------------------------------ Monte-Carlo sweep

RECURSIVE SeqSum(_)
SeqSum(list) == IF list = <<>> THEN 0 ELSE list[1] + SeqSum(Tail(list))

RECURSIVE SeqMax(_)
SeqMax(list) ==
    IF Len(list) = 1 THEN list[1]
    ELSE LET m == SeqMax(Tail(list)) IN IF list[1] >= m THEN list[1] ELSE m

\* np.mean and np.std (population standard deviation)
np_mean(list) == SeqSum(list) \div Len(list)
np_std(list) ==
    LET m == np_mean(list)
    IN  Sqrt(np_mean([n \in 1..Len(list) |-> Mul(list[n] - m, list[n] - m)]))

find_average(path) == np_mean(path)

asian_call_payoff(path, X) ==
    LET avg_S == find_average(path) IN IF avg_S > X THEN avg_S - X ELSE 0

lookback_call_payoff(path, X) ==
    LET max_S == SeqMax(path) IN IF max_S > X THEN max_S - X ELSE 0

exotic_payoff(path, X, kind) ==
    IF kind = "asian" THEN asian_call_payoff(path, X)
    ELSE lookback_call_payoff(path, X)

\* the path find_stock_price returns for the draws zs, and its times
gbm_path(S0, r0, sigma0, T0, steps0, zs) ==
    LET dt0 == T0 \div steps0
        p[n \in 1..(steps0 + 1)] ==
            IF n = 1 THEN S0
            ELSE gbm_step(p[n - 1], r0, sigma0, dt0, normal(Sqrt(dt0), zs[n - 1]))
    IN  [n \in 1..(steps0 + 1) |-> p[n]]

gbm_times(T0, steps0) == [n \in 1..(steps0 + 1) |-> (n - 1) * (T0 \div steps0)]

\* variant of start_samples: the samples of the previous S_0 kept
start_samples_kept(previous) == previous

\* asian_price = [] / lookback_price = [] at the start of each S_0
start_samples(previous) == <<>>

\* err_price = 1.96*np.std(samples)/sqrt_trials, sqrt_trials = np.sqrt(trials)
half_width(samples, trials0) ==
    Div(Mul((196 * SCALE) \div 100, np_std(samples)), Sqrt(trials0 * SCALE))

McDraws == {-SCALE, SCALE}

InitMc ==
    /\ EmptyFrame /\ V_E = NoRows /\ V_A = NoRows
    /\ euro_result = <<>> /\ euro_err = "none"
    /\ amer_result = <<>> /\ amer_err = "none"
    /\ SimIdle /\ PdeIdle
    /\ ndraws = 0 /\ err = "none" /\ S_0 = 0
    /\ k = 0 /\ price = <<>> /\ paths = <<>>
    /\ mean_price = <<>> /\ err_price = <<>>
    /\ S_0_list \in {<<90 * SCALE, 110 * SCALE>>, <<120 * SCALE, 100 * SCALE>>}
    /\ E = 100 * SCALE
    /\ option_type \in {"asian", "lookback"}
    /\ r \in {0, SCALE \div 20} /\ sigma = SCALE \div 5
    /\ T \in SimTValues /\ steps \in {1, 2} /\ trials \in 1..MaxTrials
    /\ pc = "call_mc"

\* make_asian_call_plot / make_lookback_call_plot: the result lists and discount
McSetup ==
    /\ pc = "call_mc"
    /\ mean_price' = <<>> /\ err_price' = <<>>
    /\ discount' = Exp(-Mul(r, T))
    /\ k' = 0
    /\ pc' = "mc_S0"
    /\ UNCHANGED <<inputs, dt, u, d, tree, payoff_row, new_row, i, j, exercise,
                   V_E, V_A, outs, sim, trials, ndraws, err, S_0_list, price,
                   paths, pde>>

\* for S_0 in S_0_list: a new sample list
McS0Start ==
    /\ pc = "mc_S0" /\ k < Len(S_0_list)
    /\ S_0' = S_0_list[k + 1]
    /\ price' = start_samples(price)
    /\ paths' = <<>>
    /\ i' = 0
    /\ pc' = "mc_trial"
    /\ UNCHANGED <<r, sigma, T, steps, E, option_type, dt, u, d, tree, discount,
                   payoff_row, new_row, j, exercise, V_E, V_A, outs, sim,
                   trials, ndraws, err, S_0_list, k, mean_price, err_price,
                   pde>>

\* one pass of `for i in range(trials)`: a path, its payoff, the sample
McTrial ==
    /\ pc = "mc_trial" /\ i < trials
    /\ \E zs \in [1..steps -> McDraws] :
          /\ S' = gbm_path(S_0, r, sigma, T, steps, zs)
          /\ t' = gbm_times(T, steps)
          /\ S_now' = S'[steps + 1]
          /\ t_now' = t'[steps + 1]
    /\ price' = Append(price, Mul(exotic_payoff(S', E, option_type), discount))
    /\ paths' = Append(paths, S')
    /\ ndraws' = ndraws + steps
    /\ i' = i + 1
    /\ UNCHANGED <<inputs, dt, u, d, tree, discount, payoff_row, new_row, j,
                   exercise, V_E, V_A, outs, trials, err, S_0_list, k,
                   mean_price, err_price, pde, pc>>

\* after the trials of one S_0: mean and half-width
McS0End ==
    /\ pc = "mc_trial" /\ i = trials
    /\ mean_price' = Append(mean_price, np_mean(price))
    /\ err_price' = Append(err_price, half_width(price, trials))
    /\ k' = k + 1
    /\ pc' = "mc_S0"
    /\ UNCHANGED <<inputs, frame, V_E, V_A, outs, sim, trials, ndraws, err,
                   S_0_list, price, paths, pde>>

\* the plot calls that end the function
McDone ==
    /\ pc = "mc_S0" /\ k = Len(S_0_list)
    /\ pc' = "done"
    /\ UNCHANGED <<inputs, frame, V_E, V_A, outs, aux>>

NextMc == McSetup \/ McS0Start \/ McTrial \/ McS0End \/ McDone

SpecMc == InitMc /\ [][NextMc]_vars

\* discounted payoff of a path, written out
SampleOf(path) ==
    LET avg == SeqSum(path) \div Len(path)
        top == SeqMax(path)
        pay == IF option_type = "asian"
               THEN (IF avg > E THEN avg - E ELSE 0)
               ELSE (IF top > E THEN top - E ELSE 0)
    IN  (pay * Exp(-((r * T) \div SCALE))) \div SCALE

\* C18: for each S_0 of a sweep the estimate uses exactly `trials` samples,
\* each exp(-r*T) times the payoff of its own freshly simulated path from
\* that S_0; no sample of an earlier S_0 is carried over; the mean reported
\* is the arithmetic mean of the samples and the half-width reported is
\* 1.96*std(samples)/sqrt(trials).
C18_SweepSamples ==
    [][ /\ pc' = "mc_trial" =>
              /\ Len(price') = i' /\ Len(paths') = i' /\ i' <= trials
              /\ \A n \in 1..Len(price') :
                    /\ paths'[n][1] = S_0_list[k' + 1]
                    /\ Len(paths'[n]) = steps + 1
                    /\ price'[n] = SampleOf(paths'[n])
        /\ (pc = "mc_trial" /\ pc' = "mc_trial") =>
              /\ paths' = Append(paths, S')
              /\ ndraws' = ndraws + steps
              /\ \A n \in 1..Len(price) : price'[n] = price[n]
        /\ (pc = "mc_trial" /\ pc' = "mc_S0") =>
              /\ Len(price) = trials
              /\ Len(mean_price') = k' /\ Len(err_price') = k'
              /\ mean_price'[k'] = SeqSum(price) \div trials
              /\ err_price'[k']
                   = (((((196 * SCALE) \div 100) * np_std(price)) \div SCALE) * SCALE)
                        \div Sqrt(trials * SCALE)
              /\ \A n \in 1..Len(mean_price) :
                    mean_price'[n] = mean_price[n] /\ err_price'[n] = err_price[n]
      ]_vars

\* a finished sweep of two initial prices with several samples each, the
\* samples of the first differing among themselves
C18_Witness ==
    /\ pc = "done" /\ trials >= 2 /\ Len(mean_price) = 2 /\ steps = 2
    /\ err_price[1] > 0 /\ mean_price[1] > 0
    /\ mean_price[2] # mean_price[1]


\* ------------------------------------------------------------ sequences of pricing calls

\* largest number of further calls after the first pair
MaxCalls == 2

SeqS0Values == {80 * SCALE, 100 * SCALE, 120 * SCALE}
SeqTypes == {"put", "cash_or_nothing_call"}

InitSeq ==
    /\ AuxIdle
    /\ S_0 \in SeqS0Values /\ E = 100 * SCALE /\ r = SCALE \div 25
    /\ sigma = SCALE \div 5 /\ T = SCALE /\ steps \in 1..MaxSteps
    /\ option_type \in SeqTypes
    /\ pc = "call_euro"
    /\ EmptyFrame
    /\ V_E = NoRows /\ V_A = NoRows
    /\ euro_result = <<>> /\ euro_err = "none"
    /\ amer_result = <<>> /\ amer_err = "none"

\* the caller's loop (`for S_0 in S_0_list`, then the next option_type): a
\* further pricing call with other arguments; locals of earlier calls are
\* whatever those calls left
NextCall ==
    /\ pc = "done" /\ k < MaxCalls
    /\ \E s \in SeqS0Values, kind \in SeqTypes, fn \in {"call_euro", "call_amer"} :
          /\ S_0' = s /\ option_type' = kind /\ pc' = fn
    /\ k' = k + 1
    /\ UNCHANGED <<r, sigma, T, steps, E, frame, V_E, V_A, outs, sim, trials,
                   ndraws, err, S_0_list, price, paths, mean_price, err_price,
                   pde>>

NextSeq == Next \/ NextCall

SpecSeq == InitSeq /\ [][NextSeq]_vars

\* the value a European call returns on its own: the terminal payoffs of the
\* lattice of the arguments, averaged and discounted level by level
RECURSIVE euro_reduce(_, _)
euro_reduce(row, disc) ==
    IF Len(row) = 1 THEN row[1]
    ELSE euro_reduce([j1 \in 1..(Len(row) - 1) |->
                         (((disc * HALF) \div SCALE) * (row[j1] + row[j1 + 1]))
                            \div SCALE],
                     disc)

\* the same for an American call: value and flag of the root
RECURSIVE amer_reduce(_, _, _, _, _)
amer_reduce(row, disc, tr, X, kind) ==
    LET lvl == Len(row) - 1
        held == [j1 \in 1..lvl |->
                    (((disc * HALF) \div SCALE) * (row[j1] + row[j1 + 1])) \div SCALE]
        now == [j1 \in 1..lvl |-> payoff(tr[lvl][j1], X, kind)]
        new == [j1 \in 1..lvl |-> IF now[j1] > held[j1] THEN now[j1] ELSE held[j1]]
    IN  IF lvl = 1
        THEN [value |-> new[1],
              exercise |-> IF now[1] > held[1] THEN "True" ELSE "False"]
        ELSE amer_reduce(new, disc, tr, X, kind)

EuroAlone ==
    LET tr == produce_tree(S_0, r, sigma, T, steps)
    IN  euro_reduce([j1 \in 1..(steps + 1) |-> payoff(tr[steps + 1][j1], E, option_type)],
                    Exp(Mul(-r, T \div steps)))

AmerAlone ==
    LET tr == produce_tree(S_0, r, sigma, T, steps)
    IN  amer_reduce([j1 \in 1..(steps + 1) |-> payoff(tr[steps + 1][j1], E, option_type)],
                    Exp(Mul(-r, T \div steps)), tr, E, option_type)

NodeExercised ==
    \/ \E l \in (DOMAIN V_A) \ {steps} : \E j1 \in 1..(l + 1) :
          payoff(tree[l + 1][j1], E, option_type)
             > DiscountedMean(V_A[l + 1][j1], V_A[l + 1][j1 + 1])
    \/ /\ pc = "amer_loop" /\ i < steps
       /\ \E j1 \in 1..Len(new_row) :
             payoff(tree[AmerLevel + 1][j1], E, option_type)
                > DiscountedMean(payoff_row[j1], payoff_row[j1 + 1])

\* the American call has so far done what the European one did
SameAsEuro ==
    /\ \A l \in DOMAIN V_A : V_A[l] = V_E[l]
    /\ (pc = "amer_loop" /\ i < steps) =>
          \A j1 \in 1..Len(new_row) : new_row[j1] = V_E[AmerLevel][j1]
    /\ pc = "amer_loop" => exercise # "True"
    /\ amer_result # <<>> =>
          amer_result = <<[value |-> euro_result[1], exercise |-> "False"]>>

CallArgs ==
    /\ ValidArgs /\ option_type = "call" /\ r >= 0 /\ E >= 0
    /\ pc \in {"amer_loop", "done"} /\ amer_err = "none"

\* C21 (as stated): for a call with r >= 0, E >= 0, S0 >= 0, sigma > 0,
\* T >= 0, N >= 1 no node of the American induction is exercised, and
\* find_amer_option_value returns exactly the European value and False.
C21_CallNeverExercised ==
    CallArgs => (~NodeExercised /\ SameAsEuro)

\* C21 (amended): for such a call, whenever no node is exercised the
\* American induction repeats the European one value for value and returns
\* the European value with False; with r > 0 and E > 0, or with T = 0, no
\* node is exercised.  With r = 0 the hold and exercise values of a node in
\* the money are equal before rounding, and rounding decides the comparison.
C21_CallEqualsEuroUnlessTie ==
    CallArgs =>
        /\ ~NodeExercised => SameAsEuro
        /\ ((r > 0 /\ E > 0) \/ T = 0) => ~NodeExercised
        /\ (amer_result # <<>>) => amer_result[1].value >= euro_result[1]

\* a call in the money, r > 0, priced over two or more levels: the American
\* value returned is the European one, flag False
C21_Witness ==
    /\ CallArgs /\ pc = "done" /\ r > 0 /\ T > 0 /\ steps >= 2 /\ S_0 > E
    /\ ~NodeExercised
    /\ amer_result = <<[value |-> euro_result[1], exercise |-> "False"]>>
    /\ euro_result[1] > S_0 - E

\* a call with r = 0 where rounding made exercising beat holding
C21_WitnessTie ==
    /\ CallArgs /\ pc = "done" /\ r = 0 /\ T > 0 /\ NodeExercised


\* ------------------------------------------------------------ large volatility

\* arguments with sigma^2*dt on both sides of ln 2; prices kept small, and a
\* positive d large enough for d^N to stay above the fixed-point unit
WideS0Values    == {10 * SCALE, 20 * SCALE}
WideSigmaValues == {SCALE \div 5, (3 * SCALE) \div 5, (9 * SCALE) \div 10,
                    (6 * SCALE) \div 5}

InitWide ==
    /\ AuxIdle
    /\ S_0 \in WideS0Values /\ E = 10 * SCALE /\ r \in {0, SCALE \div 25}
    /\ sigma \in WideSigmaValues /\ T \in TValues /\ steps \in 1..MaxSteps
    /\ option_type \in OptionTypes
    /\ pc = "call_euro"
    /\ EmptyFrame
    /\ V_E = NoRows /\ V_A = NoRows
    /\ euro_result = <<>> /\ euro_err = "none"
    /\ amer_result = <<>> /\ amer_err = "none"

SpecWide == InitWide /\ [][Next]_vars

\* sqrt(A) of find_dt_u_d for the arguments of the call
RootA == Sqrt(Exp(Mul(Mul(sigma, sigma), T \div steps)) - SCALE)

TreeBuilt == S_0 > 0 /\ sigma > 0 /\ T >= 0 /\ steps >= 1 /\ tree # <<>>

\* C22 (as stated): for S0 > 0, sigma > 0, T >= 0, N >= 1 the down factor d
\* is strictly positive and so is every price of the lattice, whatever
\* sigma^2*dt is.
C22_LatticePositive ==
    TreeBuilt =>
        /\ d > 0
        /\ \A i1 \in 1..Len(tree) : \A j1 \in 1..i1 : tree[i1][j1] > 0

\* C22 (amended): d = B*(1 - sqrt(A)) has the sign of 1 - sqrt(A): when
\* sqrt(A) < 1 (sigma^2*dt < ln 2) d and every lattice price are strictly
\* positive; when sqrt(A) > 1 (sigma^2*dt > ln 2) d is negative and so is
\* the lattice price S0*d; u is positive in both cases.
C22_DownFactorSign ==
    TreeBuilt =>
        /\ u > 0 /\ Len(tree) = steps + 1
        /\ RootA < SCALE =>
              /\ d > 0
              /\ \A i1 \in 1..Len(tree) : \A j1 \in 1..i1 : tree[i1][j1] > 0
        /\ RootA > SCALE =>
              /\ d < 0
              /\ tree[2][1] < 0
              /\ tree[2][1] = (S_0 * d) \div SCALE
        /\ RootA = SCALE => d = 0

\* a finished pricing over a lattice with a negative down factor
C22_Witness ==
    /\ TreeBuilt /\ pc = "done" /\ steps >= 2 /\ RootA > SCALE
    /\ d < 0 /\ tree[2][1] < 0 /\ tree[3][3] > 0

\* and one with sigma^2*dt below ln 2
C22_WitnessPositive ==
    /\ TreeBuilt /\ pc = "done" /\ steps >= 2 /\ RootA < SCALE /\ RootA > HALF
    /\ d > 0 /\ tree[3][1] > 0


\* ------------------------------------------------------------ floor of the American value

\* C23: for the four contract kinds and N >= 1, every node value of the
\* American induction is >= 0 and >= the payoff of the price node with the
\* same level and index; the value returned is >= payoff(S0, E, kind).
C23_AmerValueFloor ==
    (option_type \in OptionTypes /\ steps >= 1) =>
        /\ \A l \in DOMAIN V_A : \A j1 \in 1..(l + 1) :
              /\ V_A[l][j1] >= 0
              /\ V_A[l][j1] >= payoff(tree[l + 1][j1], E, option_type)
        /\ (pc = "amer_loop" /\ i < steps) =>
              \A j1 \in 1..Len(new_row) :
                 /\ new_row[j1] >= 0
                 /\ new_row[j1] >= payoff(tree[AmerLevel + 1][j1], E, option_type)
        /\ amer_result # <<>> =>
              /\ amer_result[1].value >= 0
              /\ amer_result[1].value >= payoff(S_0, E, option_type)
              /\ tree[1][1] = S_0

\* a put in the money returned above its exercise payoff, after a node
\* further down was exercised
C23_Witness ==
    /\ option_type = "put" /\ pc = "done" /\ steps >= 2 /\ amer_result # <<>>
    /\ payoff(S_0, E, option_type) > 0
    /\ amer_result[1].value > payoff(S_0, E, option_type)
    /\ NodeExercised

\* a put returned at exactly its exercise payoff
C23_WitnessExercised ==
    /\ option_type = "put" /\ pc = "done" /\ steps >= 2 /\ T > 0
    /\ amer_result # <<>> /\ amer_result[1].exercise = "True"
    /\ amer_result[1].value = payoff(S_0, E, option_type)

====
